---- MODULE Spec2Model ----
(***************************************************************************)
(* A model of the two SportX relayer clients of sportx-js:                 *)
(*   component "A"  the mainchain/sidechain client (Ably + HTTP),          *)
(*   component "B"  the legacy client (socket.io + HTTP reads).            *)
(* One client instance is modelled.  Every public operation is an async    *)
(* function: a call runs synchronously up to its first await and is then   *)
(* continued by the event it awaits (connection, timer, HTTP response,     *)
(* socket acknowledgment, pushed socket event, signer reply).              *)
(***************************************************************************)
EXTENDS Integers, Sequences, FiniteSets, TLC

(***************************************************************************)
(* Bounds of the model                                                     *)
(***************************************************************************)
MaxCalls == 2        \* calls that can be in flight at the same time
MaxLen == 2          \* longest batch handed to fillOrders / cancelOrder

Calls == 1..MaxCalls

(***************************************************************************)
(* JavaScript values.  Every structured value is a record; a missing       *)
(* value is the record Undefined.                                          *)
(***************************************************************************)
Undefined == [undefined |-> TRUE]

\* IMetadata snapshots the relayer may serve (two different ones).
Meta(i) ==
    [executorAddress |-> IF i = 1 THEN "0xE1" ELSE "0xE2",
     relayerAddress |-> IF i = 1 THEN "0xR1" ELSE "0xR2",
     fees |-> [relayerTakerFee |-> IF i = 1 THEN "fee1" ELSE "fee2",
               relayerMakerFee |-> IF i = 1 THEN "fee1" ELSE "fee2"],
     makerOrderMinimum |-> i]

MetaVals == {Meta(1), Meta(2)}

\* Errors a call can reject with: the class, the message, the body the
\* error carries and the HTTP status code named in its message.
\* text is the raw response text a parse error quotes.
Err(kind, msg, body, code, text) ==
    [kind |-> kind, msg |-> msg, body |-> body, code |-> code, text |-> text]

NoErr == Err("none", "", Undefined, 0, Undefined)

NoResp == [status |-> 0, text |-> [raw |-> ""]]

\* A call slot nobody uses.
Idle ==
    [op |-> "none", pc |-> "idle", st |-> "idle", arg |-> Undefined,
     val |-> Undefined, err |-> NoErr, conn |-> 0,
     tConn |-> FALSE, tOp |-> FALSE, lst |-> "", ack |-> "none",
     nSign |-> 0, nHttp |-> 0, nEmit |-> 0, resp |-> NoResp,
     salt |-> "", signed |-> Undefined, sig |-> Undefined, sent |-> Undefined]

VARIABLES
    caller,        \* how the caller calls: "sequential" or "overlapping"
    comp,          \* which client class the instance is: "A" or "B"
    signer,        \* A: how the instance signs: "key", "metamask", "legacy"
    ctor,          \* the constructor call: its arguments and what came of it
    initialized,   \* this.initialized
    metadata,      \* this.metadata
    chainId,       \* A: this.mainchainChainId (0: not set)
    cur,           \* the connection in this.ably / this.clientSocket (0: none)
    connected,     \* connections that reached the connected state
    everInit,      \* history: init() has been called
    calls          \* the calls in flight, by slot

vars == <<caller, comp, signer, ctor, initialized, metadata, chainId, cur, connected, everInit,
          calls>>

shared == <<caller, comp, signer, ctor, initialized, metadata, chainId, cur, connected, everInit>>

(***************************************************************************)
(* Promise settlement: a promise settles once.                             *)
(***************************************************************************)
Pending(r) == r.st = "pending"

Resolve(r, v) ==
    IF Pending(r) THEN [r EXCEPT !.st = "resolved", !.val = v, !.pc = "done"]
    ELSE r

Reject(r, e) ==
    IF Pending(r) THEN [r EXCEPT !.st = "rejected", !.err = e, !.pc = "done"]
    ELSE r

\* A fresh call of operation o with argument a.
Start(o, a) == [Idle EXCEPT !.op = o, !.st = "pending", !.arg = a]

Free(c) == calls[c].st = "idle"

Set(c, r) == calls' = [calls EXCEPT ![c] = r]

\* A caller that overlaps its calls puts a new call in the lowest free slot.
Slot(c) == Free(c) /\ \A d \in Calls : d < c => ~Free(d)

\* A caller that awaits every call before it makes the next one.
Alone(c) == \A d \in Calls : Free(d) /\ c <= d

\* The slot a new call takes.
Take(c) ==
    /\ ctor.status = "built"
    /\ IF caller = "sequential" THEN Alone(c) ELSE Slot(c)

(***************************************************************************)
(* The relayer's HTTP answers.  A response is a status code and a body     *)
(* text; a text is either the serialisation of a JSON body or something    *)
(* that is no JSON at all.                                                 *)
(***************************************************************************)
Data(op) ==
    CASE op \in {"init", "getMetadata"} -> MetaVals
      [] op = "getActiveMarkets" -> {[markets |-> "markets1"]}
      [] op = "getPendingOrFailedBets" -> {[bets |-> "bets1"]}
      [] op = "getTrades" -> {[trades |-> "trades1"]}
      [] OTHER -> {[list |-> "list1"]}

Bodies(op) ==
    {[status |-> "success", data |-> d] : d \in Data(op)}
        \cup {[status |-> "failure", reason |-> "reason1"]}

Texts(op) == {[raw |-> "<html>"]} \cup {[json |-> b] : b \in Bodies(op)}

Responses(op) == [status : {200, 500}, text : Texts(op)]

\* obj.name of a JavaScript object: undefined when the field is absent.
Field(obj, name) == IF name \in DOMAIN obj THEN obj[name] ELSE Undefined

tryParseJson(text) ==
    IF "json" \in DOMAIN text
    THEN [valid |-> TRUE, result |-> text.json]
    ELSE [valid |-> FALSE, result |-> Undefined]

\* A faulty tryParseResponse, which forgets the status: C6 tells it from the code.
tryParseResponse_statusBlind(response, errorMessage) ==
    LET p == tryParseJson(response.text) IN
    IF ~p.valid
    THEN [throw |-> TRUE, result |-> Undefined,
          err |-> Err("APIError", "Can't parse JSON", Undefined, 0, response.text)]
    ELSE [throw |-> FALSE, result |-> p.result, err |-> NoErr]

tryParseResponse(response, errorMessage) ==
    LET p == tryParseJson(response.text) IN
    IF p.valid /\ response.status # 200
    THEN [throw |-> TRUE, result |-> Undefined,
          err |-> Err("APIError", errorMessage, p.result, response.status,
                      Undefined)]
    ELSE IF ~p.valid
    THEN [throw |-> TRUE, result |-> Undefined,
          err |-> Err("APIError", "Can't parse JSON", Undefined, 0, response.text)]
    ELSE [throw |-> FALSE, result |-> p.result, err |-> NoErr]

TypeError == Err("TypeError", "", Undefined, 0, Undefined)

\* fetch(url, ...): the request leaves; the call awaits the response.
Fetch(r) == [r EXCEPT !.nHttp = @ + 1, !.pc = "http"]

\* The response arrives at a call awaiting it.
Awaits(c, op, pc) ==
    /\ calls[c].op = op
    /\ calls[c].pc = pc
    /\ Pending(calls[c])

(***************************************************************************)
(* Connections.  Every init() that passes its guard creates a connection   *)
(* object (an Ably client, a socket) and stores it in the instance.  A     *)
(* connection nothing refers to any more is garbage, and its name is used  *)
(* again.                                                                  *)
(***************************************************************************)
Conns == 1..(MaxCalls + 1)

Referenced(cs) == {cs[c].conn : c \in DOMAIN cs} \ {0}

NewConn == CHOOSE i \in Conns : i \notin Referenced(calls) /\
                                 \A j \in Conns : j < i => j \in Referenced(calls)

(***************************************************************************)
(* Component A: init                                                       *)
(***************************************************************************)
\* What a call of init() finds: whether init() was called before on this
\* instance.
InitArg == [first |-> ~everInit]

AlreadyInitialized == Err("Error", "Already initialized", Undefined, 0, Undefined)

A_init(c) ==
    /\ comp = "A" /\ Take(c)
    /\ everInit' = TRUE
    /\ IF initialized
       THEN /\ Set(c, Reject(Start("init", InitArg), AlreadyInitialized))
            /\ UNCHANGED <<cur, connected>>
       ELSE /\ cur' = NewConn
            /\ connected' = connected \ {NewConn}
            /\ Set(c, [Start("init", InitArg) EXCEPT
                          !.conn = NewConn, !.tConn = TRUE, !.pc = "conn"])
    /\ UNCHANGED <<caller, comp, signer, ctor, initialized, metadata, chainId>>

\* ably.connection.on("connected", () => resolve()), then this.getMetadata()
A_connected(s) ==
    /\ comp = "A" /\ s \in Referenced(calls) /\ s \notin connected
    /\ connected' = connected \cup {s}
    /\ calls' = [c \in Calls |->
                   IF calls[c].op = "init" /\ calls[c].conn = s /\ calls[c].pc = "conn"
                   THEN Fetch(calls[c]) ELSE calls[c]]
    /\ UNCHANGED <<caller, comp, signer, ctor, initialized, metadata, chainId, cur, everInit>>

\* setTimeout(() => reject(), RELAYER_TIMEOUT)
A_initTimeout(c) ==
    /\ comp = "A" /\ calls[c].op = "init" /\ calls[c].tConn
    /\ Set(c, IF calls[c].pc = "conn"
              THEN Reject([calls[c] EXCEPT !.tConn = FALSE],
                          Err("undefined", "", Undefined, 0, Undefined))
              ELSE [calls[c] EXCEPT !.tConn = FALSE])
    /\ UNCHANGED shared

\* this.metadata = await this.getMetadata(); then mainchainProvider.getNetwork()
A_init_metadata(c, resp) ==
    /\ comp = "A" /\ Awaits(c, "init", "http") /\ resp \in Responses("init")
    /\ LET t == tryParseResponse(resp, "Can't fetch metadata") IN
       IF t.throw
       THEN /\ Set(c, Reject([calls[c] EXCEPT !.resp = resp], t.err))
            /\ UNCHANGED metadata
       ELSE /\ metadata' = Field(t.result, "data")
            /\ Set(c, [calls[c] EXCEPT !.resp = resp, !.pc = "net"])
    /\ UNCHANGED <<caller, comp, signer, ctor, initialized, chainId, cur, connected, everInit>>

\* getNetwork() answers: chain id and token wrappers are set, initialized = true
A_init_network(c, ok) ==
    /\ comp = "A" /\ Awaits(c, "init", "net")
    /\ IF ok
       THEN /\ chainId' = 1
            /\ initialized' = TRUE
            /\ Set(c, Resolve(calls[c], Undefined))
       ELSE /\ Set(c, Reject(calls[c],
                             Err("ProviderError", "", Undefined, 0, Undefined)))
            /\ UNCHANGED <<chainId, initialized>>
    /\ UNCHANGED <<caller, comp, signer, ctor, metadata, cur, connected, everInit>>

(***************************************************************************)
(* Component A: the HTTP reads without arguments                           *)
(***************************************************************************)
\* const { data } = result; return data
ReturnsData(r, resp, errorMessage) ==
    LET t == tryParseResponse(resp, errorMessage)
        rr == [r EXCEPT !.resp = resp]
    IN IF t.throw THEN Reject(rr, t.err) ELSE Resolve(rr, Field(t.result, "data"))

\* const { data: { sub } } = result; return sub
ReturnsSub(r, resp, errorMessage, sub) ==
    LET t == tryParseResponse(resp, errorMessage)
        rr == [r EXCEPT !.resp = resp]
    IN IF t.throw THEN Reject(rr, t.err)
       ELSE IF Field(t.result, "data") = Undefined THEN Reject(rr, TypeError)
       ELSE Resolve(rr, Field(Field(t.result, "data"), sub))

\* return result as IRelayerResponse
ReturnsResult(r, resp, errorMessage) ==
    LET t == tryParseResponse(resp, errorMessage)
        rr == [r EXCEPT !.resp = resp]
    IN IF t.throw THEN Reject(rr, t.err) ELSE Resolve(rr, t.result)

A_getMetadata(c) ==
    /\ comp = "A" /\ Take(c)
    /\ Set(c, Fetch(Start("getMetadata", Undefined)))
    /\ UNCHANGED shared

A_getMetadata_resp(c, resp) ==
    /\ comp = "A" /\ Awaits(c, "getMetadata", "http")
    /\ Set(c, ReturnsData(calls[c], resp, "Can't fetch metadata"))
    /\ UNCHANGED shared

A_getLeagues(c) ==
    /\ comp = "A" /\ Take(c)
    /\ Set(c, Fetch(Start("getLeagues", Undefined)))
    /\ UNCHANGED shared

A_getLeagues_resp(c, resp) ==
    /\ comp = "A" /\ Awaits(c, "getLeagues", "http")
    /\ Set(c, ReturnsData(calls[c], resp, "Can't fetch leagues"))
    /\ UNCHANGED shared

A_getSports(c) ==
    /\ comp = "A" /\ Take(c)
    /\ Set(c, Fetch(Start("getSports", Undefined)))
    /\ UNCHANGED shared

A_getSports_resp(c, resp) ==
    /\ comp = "A" /\ Awaits(c, "getSports", "http")
    /\ Set(c, ReturnsData(calls[c], resp, "Can't fetch sports"))
    /\ UNCHANGED shared

A_getActiveMarkets(c) ==
    /\ comp = "A" /\ Take(c)
    /\ Set(c, Fetch(Start("getActiveMarkets", Undefined)))
    /\ UNCHANGED shared

A_getActiveMarkets_resp(c, resp) ==
    /\ comp = "A" /\ Awaits(c, "getActiveMarkets", "http")
    /\ Set(c, ReturnsSub(calls[c], resp, "Can't fetch active markets", "markets"))
    /\ UNCHANGED shared

(***************************************************************************)
(* Component A: the operations with arguments.  An argument is described   *)
(* by what the validation of the operation reads off it.                   *)
(***************************************************************************)
Schema(msg) == Err("APISchemaError", msg, Undefined, 0, Undefined)

\* Records over the given boolean fields with at most one FALSE, or all FALSE.
Flawed(fields) ==
    {a \in [fields -> BOOLEAN] :
        \/ Cardinality({f \in fields : ~a[f]}) <= 1
        \/ \A f \in fields : ~a[f]}

MarketLookupArgs ==
    {[isArray |-> TRUE, allHex |-> TRUE], [isArray |-> TRUE, allHex |-> FALSE],
     [isArray |-> FALSE, allHex |-> FALSE]}

A_marketLookup(c, marketHashes) ==
    /\ comp = "A" /\ Take(c) /\ marketHashes \in MarketLookupArgs
    /\ LET r == Start("marketLookup", marketHashes) IN
       IF ~marketHashes.isArray \/ ~marketHashes.allHex
       THEN Set(c, Reject(r, Schema("marketHashes is not a hex string ")))
       ELSE Set(c, Fetch([r EXCEPT !.sent = [marketHashes |-> marketHashes]]))
    /\ UNCHANGED shared

A_marketLookup_resp(c, resp) ==
    /\ comp = "A" /\ Awaits(c, "marketLookup", "http")
    /\ Set(c, ReturnsData(calls[c], resp, "Can't lookup markets"))
    /\ UNCHANGED shared

SuggestOrdersArgs ==
    Flawed({"marketHash", "betSize", "takerDirectionOutcomeOne", "taker", "baseToken"})

\* A faulty suggestOrders, which forgets the taker: C3 tells it from the code.
A_suggestOrders_takerUnchecked(c, a) ==
    /\ comp = "A" /\ Take(c) /\ a \in SuggestOrdersArgs
    /\ LET r == Start("suggestOrders", a) IN
       IF ~a.marketHash
       THEN Set(c, Reject(r, Schema("marketHash is not a hex string ")))
       ELSE IF ~a.betSize
       THEN Set(c, Reject(r, Schema("betSize as a number is not positive")))
       ELSE IF ~a.takerDirectionOutcomeOne
       THEN Set(c, Reject(r, Schema("takerDirectionOutcomeOne is not a boolean")))
       ELSE IF ~a.baseToken
       THEN Set(c, Reject(r, Schema("baseToken is not a valid address")))
       ELSE Set(c, Fetch([r EXCEPT !.sent = a]))
    /\ UNCHANGED shared

A_suggestOrders(c, a) ==
    /\ comp = "A" /\ Take(c) /\ a \in SuggestOrdersArgs
    /\ LET r == Start("suggestOrders", a) IN
       IF ~a.marketHash
       THEN Set(c, Reject(r, Schema("marketHash is not a hex string ")))
       ELSE IF ~a.betSize
       THEN Set(c, Reject(r, Schema("betSize as a number is not positive")))
       ELSE IF ~a.takerDirectionOutcomeOne
       THEN Set(c, Reject(r, Schema("takerDirectionOutcomeOne is not a boolean")))
       ELSE IF ~a.taker
       THEN Set(c, Reject(r, Schema("taker is not a valid address")))
       ELSE IF ~a.baseToken
       THEN Set(c, Reject(r, Schema("baseToken is not a valid address")))
       ELSE Set(c, Fetch([r EXCEPT !.sent = a]))
    /\ UNCHANGED shared

A_suggestOrders_resp(c, resp) ==
    /\ comp = "A" /\ Awaits(c, "suggestOrders", "http")
    /\ Set(c, ReturnsResult(calls[c], resp, "Can't get suggested orders"))
    /\ UNCHANGED shared

\* validateIGetPendingBetsRequest, validateIGetTradesRequest,
\* validateINewOrderSchema, validateISignedRelayerMakerOrder and
\* validateIFillDetailsMetadata return "OK" or the violation found.
Validate(a) == IF a.schemaOK THEN "OK" ELSE "schema violation"

RequestArgs == [schemaOK : BOOLEAN]

A_getPendingOrFailedBets(c, request) ==
    /\ comp = "A" /\ Take(c) /\ request \in RequestArgs
    /\ LET r == Start("getPendingOrFailedBets", request)
           validation == Validate(request)
       IN IF validation # "OK"
          THEN Set(c, Reject(r, Schema(validation)))
          ELSE Set(c, Fetch([r EXCEPT !.sent = request]))
    /\ UNCHANGED shared

A_getPendingOrFailedBets_resp(c, resp) ==
    /\ comp = "A" /\ Awaits(c, "getPendingOrFailedBets", "http")
    /\ Set(c, ReturnsSub(calls[c], resp, "Can't get recent pending bets", "bets"))
    /\ UNCHANGED shared

A_getTrades(c, tradeRequest) ==
    /\ comp = "A" /\ Take(c) /\ tradeRequest \in RequestArgs
    /\ LET r == Start("getTrades", tradeRequest)
           validation == Validate(tradeRequest)
       IN IF validation # "OK"
          THEN Set(c, Reject(r, Schema(validation)))
          ELSE Set(c, Fetch([r EXCEPT !.sent = tradeRequest]))
    /\ UNCHANGED shared

A_getTrades_resp(c, resp) ==
    /\ comp = "A" /\ Awaits(c, "getTrades", "http")
    /\ Set(c, ReturnsSub(calls[c], resp, "Can't get trades", "trades"))
    /\ UNCHANGED shared

\* An optional argument: left out, malformed, or well-formed.
GetOrdersArgs ==
    {a \in [marketHashes : {"none", "bad", "ok"}, maker : {"none", "bad", "ok"},
            baseToken : {"none", "bad", "ok"}] :
        \/ Cardinality({f \in DOMAIN a : a[f] = "bad"}) = 1
             /\ \A f \in DOMAIN a : a[f] # "ok"
        \/ \A f \in DOMAIN a : a[f] = "ok"
        \/ \A f \in DOMAIN a : a[f] = "none"}

A_getOrders(c, a) ==
    /\ comp = "A" /\ Take(c) /\ a \in GetOrdersArgs
    /\ LET r == Start("getOrders", a) IN
       IF a.marketHashes # "none" /\ a.marketHashes # "ok"
       THEN Set(c, Reject(r, Schema("One of the supplied market hashes is not a valid hex string.")))
       ELSE IF a.maker # "none" /\ a.maker # "ok"
       THEN Set(c, Reject(r, Schema("maker is not a valid address")))
       ELSE IF a.baseToken # "none" /\ a.baseToken # "ok"
       THEN Set(c, Reject(r, Schema("baseToken is not a valid address")))
       ELSE Set(c, Fetch([r EXCEPT !.sent = a]))
    /\ UNCHANGED shared

A_getOrders_resp(c, resp) ==
    /\ comp = "A" /\ Awaits(c, "getOrders", "http")
    /\ Set(c, ReturnsData(calls[c], resp, "Can't get orders"))
    /\ UNCHANGED shared

(***************************************************************************)
(* Component A: signing.  With a raw private key the wallet answers        *)
(* locally, in the same turn; a provider-backed signer is a remote call    *)
(* the operation awaits.                                                   *)
(***************************************************************************)
WalletAddress == "0xMaker"

Salts == {"salt1", "salt2"}

\* What a signature is: who signed, over what, by which call.
Signature(payload, method) == [by |-> WalletAddress, over |-> payload, method |-> method]

ProviderError == Err("ProviderError", "", Undefined, 0, Undefined)

\* getEip712Signature(payload): three ways to sign
getEip712Signature(payload) ==
    IF signer = "key" THEN Signature(payload, "signTypedData_v4")
    ELSE IF signer = "metamask" THEN Signature(payload, "eth_signTypedData_v4")
    ELSE Signature(payload, "eth_signTypedData")

\* getOrderSignature(order, wallet): the wallet signs the order's hash
getOrderSignature(order) == Signature(order, "signMessage")

\* Order intents a caller may pass; the object may also carry fields the
\* caller has no say in (maker, executor, salt), "" when it does not.
NewOrders(k) ==
    [schemaOK : BOOLEAN, marketHash : {"0xM1"},
     totalBetSize : IF k = "B" THEN 1..2 ELSE {1},
     percentageOdds : {"odds1"}, expiry : {100}, baseToken : {"0xT1"},
     isMakerBettingOutcomeOne : {TRUE},
     maker : {""}, executor : {""}, salt : {""}]
    \cup
    [schemaOK : {TRUE}, marketHash : {"0xM1"},
     totalBetSize : IF k = "B" THEN 1..2 ELSE {1},
     percentageOdds : {"odds1"}, expiry : {100}, baseToken : {"0xT1"},
     isMakerBettingOutcomeOne : {TRUE},
     maker : {"0xCaller"}, executor : {"0xCaller"}, salt : {"saltCaller"}]

\* { ...apiMakerOrder, signature }
WithSignature(apiMakerOrder, signature) ==
    [f \in DOMAIN apiMakerOrder \cup {"signature"} |->
        IF f = "signature" THEN signature ELSE apiMakerOrder[f]]

\* newOrder, from the order's signature on: the signed order is posted
A_newOrder_post(r, signature) ==
    Fetch([r EXCEPT !.sig = signature, !.sent =
             [orders |-> <<WithSignature(r.signed, signature)>>]])

\* newOrder, from the wallet's address on: the order is built and signed
\* A faulty newOrder, which lets the fields of the caller's object through
\* ({ ...order } after the injected fields): C11 tells it from the code.
A_newOrder_build_callerFields(r, maker, salt) ==
    IF metadata = Undefined THEN Reject(r, TypeError)
    ELSE LET order == r.arg
             apiMakerOrder ==
                 [marketHash |-> order.marketHash,
                  maker |-> IF order.maker # "" THEN order.maker ELSE maker,
                  totalBetSize |-> ToString(order.totalBetSize),
                  percentageOdds |-> order.percentageOdds,
                  expiry |-> ToString(order.expiry),
                  executor |-> Field(metadata, "executorAddress"),
                  baseToken |-> order.baseToken,
                  salt |-> salt,
                  isMakerBettingOutcomeOne |-> order.isMakerBettingOutcomeOne]
             rr == [r EXCEPT !.salt = salt, !.signed = apiMakerOrder, !.nSign = @ + 1]
         IN IF signer = "key"
            THEN A_newOrder_post(rr, getOrderSignature(apiMakerOrder))
            ELSE [rr EXCEPT !.pc = "sign"]

A_newOrder_build(r, maker, salt) ==
    IF metadata = Undefined THEN Reject(r, TypeError)
    ELSE LET order == r.arg
             apiMakerOrder ==
                 [marketHash |-> order.marketHash,
                  maker |-> maker,
                  totalBetSize |-> ToString(order.totalBetSize),
                  percentageOdds |-> order.percentageOdds,
                  expiry |-> ToString(order.expiry),
                  executor |-> Field(metadata, "executorAddress"),
                  baseToken |-> order.baseToken,
                  salt |-> salt,
                  isMakerBettingOutcomeOne |-> order.isMakerBettingOutcomeOne]
             rr == [r EXCEPT !.salt = salt, !.signed = apiMakerOrder, !.nSign = @ + 1]
         IN IF signer = "key"
            THEN A_newOrder_post(rr, getOrderSignature(apiMakerOrder))
            ELSE [rr EXCEPT !.pc = "sign"]

A_newOrder(c, order, salt) ==
    /\ comp = "A" /\ Take(c) /\ order \in NewOrders("A") /\ salt \in Salts
    /\ LET r == Start("newOrder", order)
           schemaValidation == Validate(order)
       IN IF schemaValidation # "OK"
          THEN Set(c, Reject(r, Schema(schemaValidation)))
          ELSE IF signer = "key"
          THEN Set(c, A_newOrder_build(r, WalletAddress, salt))
          ELSE Set(c, [r EXCEPT !.pc = "addr", !.salt = salt])
    /\ UNCHANGED shared

A_newOrder_resp(c, resp) ==
    /\ comp = "A" /\ Awaits(c, "newOrder", "http")
    /\ Set(c, ReturnsResult(calls[c], resp, "Can't submit new order"))
    /\ UNCHANGED shared

Seqs(names) == {SubSeq(names, 1, n) : n \in 1..MaxLen}

OrderNames == <<"order1", "order2", "order3", "order4">>

AmountNames == <<"amount1", "amount2", "amount3", "amount4">>

FillOrdersArgs ==
    {a \in [orders : Seqs(OrderNames), ordersOK : BOOLEAN,
            affiliateAddress : {"none", "bad", "ok"},
            fillDetailsMetadata : {"none", "bad", "ok"},
            takerAmounts : Seqs(AmountNames), isArray : BOOLEAN,
            positive : BOOLEAN] :
        LET flaws == (IF a.ordersOK THEN 0 ELSE 1)
                     + (IF a.affiliateAddress = "bad" THEN 1 ELSE 0)
                     + (IF a.fillDetailsMetadata = "bad" THEN 1 ELSE 0)
                     + (IF a.isArray THEN 0 ELSE 1)
                     + (IF a.positive THEN 0 ELSE 1)
        IN /\ flaws <= 1
           /\ (a.affiliateAddress = "ok") = (a.fillDetailsMetadata = "ok")
           /\ flaws = 1 => Len(a.orders) = 1 /\ Len(a.takerAmounts) = 1
                             /\ a.affiliateAddress # "ok"}

convertToContractOrder(order) == [contractOrder |-> order]

getOrderHash(solidityOrder) == [hashOf |-> solidityOrder]

bigNumberify(x) == [bigNumber |-> x]

MakerSig(order) == [makerSigOf |-> order]

NAMetadata ==
    [action |-> "N/A", market |-> "N/A", betting |-> "N/A", stake |-> "N/A",
     odds |-> "N/A", returning |-> "N/A"]

GivenMetadata ==
    [action |-> "a", market |-> "m", betting |-> "b", stake |-> "s",
     odds |-> "o", returning |-> "r"]

\* A faulty fillOrders, which draws a second salt for the request: C15 tells
\* it from the code.
A_fillOrders_post_secondSalt(r, taker) ==
    LET a == r.arg
        fd == r.signed.fillDetails
    IN Fetch([r EXCEPT !.sent =
                [orderHashes |-> [i \in 1..Len(a.orders) |->
                                    getOrderHash(convertToContractOrder(a.orders[i]))],
                 takerAmounts |-> a.takerAmounts,
                 taker |-> taker,
                 takerSig |-> r.sig,
                 fillSalt |-> CHOOSE x \in Salts : x # fd.fills.fillSalt.bigNumber,
                 metadata |-> fd.metadata,
                 affiliateAddress |-> a.affiliateAddress]])

\* fillOrders, from the taker's address on: the request is posted
A_fillOrders_post(r, taker) ==
    LET a == r.arg
        fd == r.signed.fillDetails
    IN Fetch([r EXCEPT !.sent =
                [orderHashes |-> [i \in 1..Len(a.orders) |->
                                    getOrderHash(convertToContractOrder(a.orders[i]))],
                 takerAmounts |-> a.takerAmounts,
                 taker |-> taker,
                 takerSig |-> r.sig,
                 fillSalt |-> fd.fills.fillSalt.bigNumber,
                 metadata |-> fd.metadata,
                 affiliateAddress |-> a.affiliateAddress]])

\* fillOrders, from the taker's signature on
A_fillOrders_signed(r, takerSignature) ==
    LET rr == [r EXCEPT !.sig = takerSignature] IN
    IF signer = "key" THEN A_fillOrders_post(rr, WalletAddress)
    ELSE [rr EXCEPT !.pc = "addr"]

A_fillOrders(c, a, salt) ==
    /\ comp = "A" /\ Take(c) /\ a \in FillOrdersArgs /\ salt \in Salts
    /\ LET r == Start("fillOrders", a) IN
       IF ~a.ordersOK
       THEN Set(c, Reject(r, Schema(Validate([schemaOK |-> FALSE]))))
       ELSE IF a.affiliateAddress # "none" /\ a.affiliateAddress # "ok"
       THEN Set(c, Reject(r, Schema("Affiliate address malformed.")))
       ELSE IF a.fillDetailsMetadata # "none" /\ a.fillDetailsMetadata # "ok"
       THEN Set(c, Reject(r, Schema(Validate([schemaOK |-> FALSE]))))
       ELSE IF ~a.isArray
       THEN Set(c, Reject(r, Schema("takerAmounts is not an array")))
       ELSE IF ~a.positive
       THEN Set(c, Reject(r, Schema("takerAmounts has some invalid number strings")))
       ELSE LET fillSalt == bigNumberify(salt)
                finalFillDetailsMetadata ==
                    IF a.fillDetailsMetadata = "ok" THEN GivenMetadata ELSE NAMetadata
                fillDetails ==
                    [metadata |-> finalFillDetailsMetadata,
                     fills |->
                        [orders |-> [i \in 1..Len(a.orders) |-> convertToContractOrder(a.orders[i])],
                         makerSigs |-> [i \in 1..Len(a.orders) |-> MakerSig(a.orders[i])],
                         takerAmounts |-> [i \in 1..Len(a.takerAmounts) |-> bigNumberify(a.takerAmounts[i])],
                         fillSalt |-> fillSalt]]
                fillOrderPayload == [fillDetails |-> fillDetails, chainId |-> chainId]
                rr == [r EXCEPT !.salt = salt, !.signed = fillOrderPayload,
                                !.nSign = @ + 1]
            IN IF signer = "key"
               THEN Set(c, A_fillOrders_signed(rr, getEip712Signature(fillOrderPayload)))
               ELSE Set(c, [rr EXCEPT !.pc = "sign"])
    /\ UNCHANGED shared

A_fillOrders_resp(c, resp) ==
    /\ comp = "A" /\ Awaits(c, "fillOrders", "http")
    /\ Set(c, ReturnsResult(calls[c], resp, "Can't fill orders."))
    /\ UNCHANGED shared

CancelOrderArgs ==
    {a \in [isArray : BOOLEAN, allHex : BOOLEAN,
            message : {"none", "", "notAString", "test"},
            orderHashes : Seqs(<<"0xaa", "0xbb", "0xcc", "0xdd">>)] :
        /\ ~a.isArray => ~a.allHex
        /\ (~a.allHex \/ a.message = "notAString") =>
              Len(a.orderHashes) = 1 /\ (a.allHex \/ a.message = "none")}

\* A faulty cancelOrder, which posts the caller's message in place of the
\* signed one: C14 tells it from the code.
A_cancelOrder_post_rawMessage(r, cancelSignature) ==
    Fetch([r EXCEPT !.sig = cancelSignature, !.sent =
             [orders |-> r.signed.cancelDetails.orders,
              message |-> r.arg.message,
              cancelSignature |-> cancelSignature]])

\* cancelOrder, from the signature on: the request is posted
A_cancelOrder_post(r, cancelSignature) ==
    Fetch([r EXCEPT !.sig = cancelSignature, !.sent =
             [orders |-> r.signed.cancelDetails.orders,
              message |-> r.signed.cancelDetails.message,
              cancelSignature |-> cancelSignature]])

A_cancelOrder(c, a) ==
    /\ comp = "A" /\ Take(c) /\ a \in CancelOrderArgs
    /\ LET r == Start("cancelOrder", a) IN
       IF ~a.isArray
       THEN Set(c, Reject(r, Schema("orderHashes is not an array")))
       ELSE IF ~a.allHex
       THEN Set(c, Reject(r, Schema("orderHashes has some invalid order hashes.")))
       ELSE IF a.message \notin {"none", ""} /\ a.message = "notAString"
       THEN Set(c, Reject(r, Schema("message is not a string")))
       ELSE LET finalMessage ==
                    IF a.message \in {"none", ""} THEN "N/A" ELSE a.message
                cancelDetails == [orders |-> a.orderHashes, message |-> finalMessage]
                cancelOrderPayload ==
                    [cancelDetails |-> cancelDetails, chainId |-> chainId]
                rr == [r EXCEPT !.signed = cancelOrderPayload, !.nSign = @ + 1]
            IN IF signer = "key"
               THEN Set(c, A_cancelOrder_post(rr, getEip712Signature(cancelOrderPayload)))
               ELSE Set(c, [rr EXCEPT !.pc = "sign"])
    /\ UNCHANGED shared

A_cancelOrder_resp(c, resp) ==
    /\ comp = "A" /\ Awaits(c, "cancelOrder", "http")
    /\ Set(c, ReturnsResult(calls[c], resp, "Can't cancel orders."))
    /\ UNCHANGED shared

\* approveSportXContractsDai, from the signature on
A_approve_post(r, signature) ==
    Fetch([r EXCEPT !.sig = signature, !.sent =
             WithSignature(r.signed.details, signature)])

\* approveSportXContractsDai, from the permit nonce on
A_approve_sign(r, nonce) ==
    LET details == [holder |-> WalletAddress, spender |-> "0xProxy",
                    nonce |-> nonce, expiry |-> 0, allowed |-> TRUE]
        signPayload == [details |-> details, chainId |-> chainId]
        rr == [r EXCEPT !.signed = signPayload, !.nSign = @ + 1]
    IN IF signer = "key" THEN A_approve_post(rr, getEip712Signature(signPayload))
       ELSE [rr EXCEPT !.pc = "sign"]

\* approveSportXContractsDai, from the wallet's address on: the DAI wrapper,
\* which init() creates together with the chain id, is asked for the nonce
A_approve_nonces(r) ==
    IF chainId = 0 THEN Reject(r, TypeError) ELSE [r EXCEPT !.pc = "nonce"]

A_approveSportXContractsDai(c) ==
    /\ comp = "A" /\ Take(c)
    /\ LET r == Start("approveSportXContractsDai", Undefined) IN
       IF signer = "key" THEN Set(c, A_approve_nonces(r))
       ELSE Set(c, [r EXCEPT !.pc = "addr"])
    /\ UNCHANGED shared

\* The DAI contract answers nonces(walletAddress) or the provider fails.
A_approve_nonce(c, ok) ==
    /\ comp = "A" /\ Awaits(c, "approveSportXContractsDai", "nonce")
    /\ Set(c, IF ok THEN A_approve_sign(calls[c], 7)
              ELSE Reject(calls[c], ProviderError))
    /\ UNCHANGED shared

A_approveSportXContractsDai_resp(c, resp) ==
    /\ comp = "A" /\ Awaits(c, "approveSportXContractsDai", "http")
    /\ Set(c, ReturnsResult(calls[c], resp, "Can't approx SportX contracts"))
    /\ UNCHANGED shared

\* A provider-backed signer answers getAddress(), or fails.
A_getAddress_return(c, ok) ==
    /\ comp = "A" /\ calls[c].pc = "addr" /\ Pending(calls[c])
    /\ LET r == calls[c] IN
       IF ~ok THEN Set(c, Reject(r, ProviderError))
       ELSE CASE r.op = "newOrder" -> Set(c, A_newOrder_build(r, WalletAddress, r.salt))
              [] r.op = "fillOrders" -> Set(c, A_fillOrders_post(r, WalletAddress))
              [] OTHER -> Set(c, A_approve_nonces(r))
    /\ UNCHANGED shared

\* A provider-backed signer answers the signing request, or fails.
A_sign_return(c, ok) ==
    /\ comp = "A" /\ calls[c].pc = "sign" /\ Pending(calls[c])
    /\ LET r == calls[c] IN
       IF ~ok THEN Set(c, Reject(r, ProviderError))
       ELSE CASE r.op = "newOrder" ->
                   Set(c, A_newOrder_post(r, getOrderSignature(r.signed)))
              [] r.op = "fillOrders" ->
                   Set(c, A_fillOrders_signed(r, getEip712Signature(r.signed)))
              [] r.op = "cancelOrder" ->
                   Set(c, A_cancelOrder_post(r, getEip712Signature(r.signed)))
              [] OTHER -> Set(c, A_approve_post(r, getEip712Signature(r.signed)))
    /\ UNCHANGED shared

(***************************************************************************)
(* Component B (legacy): the socket calls                                  *)
(***************************************************************************)
Acks == [status : {"success", "failure"}, reason : {"reason1"}]

Markets == {[markets |-> "markets1"], [markets |-> "markets2"]}

APITimeoutError(msg) == Err("APITimeoutError", msg, Undefined, 0, Undefined)

\* The executor of getMetadata's promise: listen, emit, arm the timeout.
B_getMetadata_exec(r) ==
    IF cur = 0 THEN Reject(r, TypeError)
    ELSE [r EXCEPT !.lst = "METADATA", !.conn = cur, !.nEmit = @ + 1,
                   !.ack = "pending", !.tOp = TRUE, !.pc = "sock"]

B_init(c) ==
    /\ comp = "B" /\ Take(c)
    /\ everInit' = TRUE
    /\ IF initialized
       THEN /\ Set(c, Reject(Start("init", InitArg), AlreadyInitialized))
            /\ UNCHANGED <<cur, connected>>
       ELSE /\ cur' = NewConn
            /\ connected' = connected \ {NewConn}
            /\ Set(c, [Start("init", InitArg) EXCEPT !.conn = NewConn, !.pc = "conn"])
    /\ UNCHANGED <<caller, comp, signer, ctor, initialized, metadata, chainId>>

\* clientSocket.on("connect", ...): resolve, arm the timer; init() goes on:
\* initialized = true, then getMetadata() on the socket of the instance
B_connect(s) ==
    /\ comp = "B" /\ s \in Referenced(calls) /\ s \notin connected
    /\ connected' = connected \cup {s}
    /\ LET woken == {c \in Calls : calls[c].op = "init" /\ calls[c].conn = s
                                    /\ calls[c].pc = "conn"}
       IN /\ calls' = [c \in Calls |->
                         IF c \in woken
                         THEN B_getMetadata_exec([calls[c] EXCEPT !.tConn = TRUE])
                         ELSE calls[c]]
          /\ initialized' = IF woken # {} THEN TRUE ELSE initialized
    /\ UNCHANGED <<caller, comp, signer, ctor, metadata, chainId, cur, everInit>>

\* setTimeout(() => reject(new Error("Timeout connecting ...")), RELAYER_TIMEOUT)
\* fires: the connection promise is resolved already
B_connectTimeout(c) ==
    /\ comp = "B" /\ calls[c].op = "init" /\ calls[c].tConn
    /\ Set(c, [calls[c] EXCEPT !.tConn = FALSE])
    /\ UNCHANGED shared

B_getMetadata(c) ==
    /\ comp = "B" /\ Take(c)
    /\ Set(c, B_getMetadata_exec(Start("getMetadata", Undefined)))
    /\ UNCHANGED shared

B_getActiveMarkets(c) ==
    /\ comp = "B" /\ Take(c)
    /\ LET r == Start("getActiveMarkets", Undefined) IN
       IF cur = 0 THEN Set(c, Reject(r, TypeError))
       ELSE Set(c, [r EXCEPT !.lst = "ACTIVE_MARKETS", !.conn = cur,
                             !.nEmit = @ + 1, !.ack = "pending", !.pc = "sock"])
    /\ UNCHANGED shared

\* What a pushed event does to the call whose listener it reaches.
OnEvent(r, data) ==
    IF r.pc = "sock" /\ Pending(r)
    THEN Resolve(r, IF r.op = "init" THEN Undefined ELSE data)
    ELSE r

\* A faulty delivery, which reaches only the listener registered first: C18
\* tells it from the code.
B_pushMetadata_firstListener(s, data) ==
    /\ comp = "B" /\ s \in connected /\ data \in MetaVals
    /\ LET heard == {c \in Calls : calls[c].lst = "METADATA" /\ calls[c].conn = s}
           first == {c \in heard : \A d \in heard : c <= d}
       IN /\ heard # {}
          /\ calls' = [c \in Calls |->
                         IF c \in first THEN OnEvent(calls[c], data) ELSE calls[c]]
          /\ metadata' =
                IF \E c \in first : calls[c].op = "init" /\ calls[c].pc = "sock"
                THEN data ELSE metadata
    /\ UNCHANGED <<caller, comp, signer, ctor, initialized, chainId, cur, connected, everInit>>

\* The relayer pushes the METADATA event on socket s.
B_pushMetadata(s, data) ==
    /\ comp = "B" /\ s \in connected /\ data \in MetaVals
    /\ LET heard == {c \in Calls : calls[c].lst = "METADATA" /\ calls[c].conn = s}
       IN /\ heard # {}
          /\ calls' = [c \in Calls |->
                         IF c \in heard THEN OnEvent(calls[c], data) ELSE calls[c]]
          /\ metadata' =
                IF \E c \in heard : calls[c].op = "init" /\ calls[c].pc = "sock"
                THEN data ELSE metadata
    /\ UNCHANGED <<caller, comp, signer, ctor, initialized, chainId, cur, connected, everInit>>

\* The relayer pushes the ACTIVE_MARKETS event on socket s.
B_pushActiveMarkets(s, data) ==
    /\ comp = "B" /\ s \in connected /\ data \in Markets
    /\ LET heard == {c \in Calls : calls[c].lst = "ACTIVE_MARKETS" /\ calls[c].conn = s}
       IN /\ heard # {}
          /\ calls' = [c \in Calls |->
                         IF c \in heard THEN OnEvent(calls[c], data) ELSE calls[c]]
    /\ UNCHANGED shared

\* The acknowledgment callbacks, by operation.
B_getMetadata_ack(r, response) ==
    IF response.status # "success"
    THEN Reject(r, Err("Error", "Error getting metadata from the SportX API",
                       Undefined, 0, Undefined))
    ELSE r

B_getActiveMarkets_ack(r, response) ==
    LET rr == IF response.status # "success"
              THEN Reject(r, Err("Error", "Error getting active markets. Reason: ",
                                 [reason |-> response.reason], 0, Undefined))
              ELSE r
    IN [rr EXCEPT !.tOp = TRUE]

B_newOrder_ack(r, response) ==
    IF response.status = "success" THEN Resolve(r, response)
    ELSE Reject(r, Err("APIError", "Unable to create new order. Status: . Reason: ",
                       [status |-> response.status, reason |-> response.reason],
                       0, Undefined))

B_cancelOrder_ack(r, response) ==
    IF response.status = "success" THEN Resolve(r, response)
    ELSE Reject(r, Err("APIError", "Unable to cancel order. Status: . Reason: ",
                       [status |-> response.status, reason |-> response.reason],
                       0, Undefined))

\* The relayer acknowledges the emission of call c.
B_ack(c, response) ==
    /\ comp = "B" /\ calls[c].ack = "pending" /\ calls[c].conn \in connected
    /\ response \in Acks
    /\ LET r == [calls[c] EXCEPT !.ack = "done"] IN
       CASE r.op \in {"init", "getMetadata"} -> Set(c, B_getMetadata_ack(r, response))
         [] r.op = "getActiveMarkets" -> Set(c, B_getActiveMarkets_ack(r, response))
         [] r.op = "newOrder" -> Set(c, B_newOrder_ack(r, response))
         [] OTHER -> Set(c, B_cancelOrder_ack(r, response))
    /\ UNCHANGED shared

TimeoutMessage(op) ==
    CASE op \in {"init", "getMetadata"} -> "Timeout getting metadata from the SportX API"
      [] op = "getActiveMarkets" -> "Timeout getting active markets from the SportX API"
      [] OTHER -> "Timeout getting submitting order to the SportX API"

\* The timeout of a socket call fires.
B_timeout(c) ==
    /\ comp = "B" /\ calls[c].tOp
    /\ Set(c, Reject([calls[c] EXCEPT !.tOp = FALSE],
                     APITimeoutError(TimeoutMessage(calls[c].op))))
    /\ UNCHANGED shared

\* The emission of newOrder / cancelOrder with its timeout.
B_emit(r, payload) ==
    IF cur = 0 THEN Reject(r, TypeError)
    ELSE [r EXCEPT !.sent = payload, !.conn = cur, !.nEmit = @ + 1,
                   !.ack = "pending", !.tOp = TRUE, !.pc = "sock"]

\* A faulty newOrder, which also refuses a size equal to the minimum: C12
\* tells it from the code.
B_newOrder_minimumExclusive(c, order, salt) ==
    /\ comp = "B" /\ Take(c) /\ order \in NewOrders("B") /\ salt \in Salts
    /\ LET r == Start("newOrder", order)
           schemaValidation == Validate(order)
       IN IF schemaValidation # "OK"
          THEN Set(c, Reject(r, Schema(schemaValidation)))
          ELSE IF metadata = Undefined
          THEN Set(c, Reject(r, TypeError))
          ELSE IF order.totalBetSize <= metadata.makerOrderMinimum
          THEN Set(c, Reject(r, Schema("totalBetSize below API minimum of ")))
          ELSE LET apiMakerOrder ==
                       [marketHash |-> order.marketHash,
                        maker |-> WalletAddress,
                        totalBetSize |-> ToString(order.totalBetSize),
                        percentageOdds |-> order.percentageOdds,
                        expiry |-> ToString(order.expiry),
                        relayerTakerFee |-> metadata.fees.relayerTakerFee,
                        relayerMakerFee |-> metadata.fees.relayerMakerFee,
                        executor |-> metadata.executorAddress,
                        relayer |-> metadata.relayerAddress,
                        salt |-> salt,
                        isMakerBettingOutcomeOne |-> order.isMakerBettingOutcomeOne]
                   signature == getOrderSignature(apiMakerOrder)
                   rr == [r EXCEPT !.salt = salt, !.signed = apiMakerOrder,
                                   !.sig = signature, !.nSign = @ + 1]
               IN Set(c, B_emit(rr, WithSignature(apiMakerOrder, signature)))
    /\ UNCHANGED shared

B_newOrder(c, order, salt) ==
    /\ comp = "B" /\ Take(c) /\ order \in NewOrders("B") /\ salt \in Salts
    /\ LET r == Start("newOrder", order)
           schemaValidation == Validate(order)
       IN IF schemaValidation # "OK"
          THEN Set(c, Reject(r, Schema(schemaValidation)))
          ELSE IF metadata = Undefined
          THEN Set(c, Reject(r, TypeError))
          ELSE IF order.totalBetSize < metadata.makerOrderMinimum
          THEN Set(c, Reject(r, Schema("totalBetSize below API minimum of ")))
          ELSE LET apiMakerOrder ==
                       [marketHash |-> order.marketHash,
                        maker |-> WalletAddress,
                        totalBetSize |-> ToString(order.totalBetSize),
                        percentageOdds |-> order.percentageOdds,
                        expiry |-> ToString(order.expiry),
                        relayerTakerFee |-> metadata.fees.relayerTakerFee,
                        relayerMakerFee |-> metadata.fees.relayerMakerFee,
                        executor |-> metadata.executorAddress,
                        relayer |-> metadata.relayerAddress,
                        salt |-> salt,
                        isMakerBettingOutcomeOne |-> order.isMakerBettingOutcomeOne]
                   signature == getOrderSignature(apiMakerOrder)
                   rr == [r EXCEPT !.salt = salt, !.signed = apiMakerOrder,
                                   !.sig = signature, !.nSign = @ + 1]
               IN Set(c, B_emit(rr, WithSignature(apiMakerOrder, signature)))
    /\ UNCHANGED shared

B_CancelOrderArgs == [schemaOK : BOOLEAN, orderHashes : Seqs(<<"0xaa", "0xbb", "0xcc", "0xdd">>)]

B_cancelOrder(c, a) ==
    /\ comp = "B" /\ Take(c) /\ a \in B_CancelOrderArgs
    /\ LET r == Start("cancelOrder", a)
           schemaValidation == Validate(a)
       IN IF schemaValidation # "OK"
          THEN Set(c, Reject(r, Schema(schemaValidation)))
          ELSE LET signingPayload == [keccak |-> a.orderHashes, flag |-> TRUE]
                   cancelSignature == Signature(signingPayload, "signMessage")
                   rr == [r EXCEPT !.signed = signingPayload, !.sig = cancelSignature,
                                   !.nSign = @ + 1]
               IN Set(c, B_emit(rr, [orderHashes |-> a.orderHashes,
                                     cancelSignature |-> cancelSignature]))
    /\ UNCHANGED shared

(***************************************************************************)
(* Component B (legacy): the HTTP reads                                    *)
(***************************************************************************)
\* response.json() rejects when the body is no JSON.
FetchError == Err("FetchError", "invalid json response body", Undefined, 0, Undefined)

\* const { data } = await response.json(); return data
B_ReturnsData(r, resp) ==
    LET p == tryParseJson(resp.text)
        rr == [r EXCEPT !.resp = resp]
    IN IF ~p.valid THEN Reject(rr, FetchError)
       ELSE Resolve(rr, Field(p.result, "data"))

\* const { data } = await response.json(); return data.map(format)
B_ReturnsFormatted(r, resp) ==
    LET p == tryParseJson(resp.text)
        rr == [r EXCEPT !.resp = resp]
    IN IF ~p.valid THEN Reject(rr, FetchError)
       ELSE IF Field(p.result, "data") = Undefined THEN Reject(rr, TypeError)
       ELSE Resolve(rr, [formatted |-> Field(p.result, "data")])

B_getLeagues(c) ==
    /\ comp = "B" /\ Take(c)
    /\ Set(c, Fetch(Start("getLeagues", Undefined)))
    /\ UNCHANGED shared

B_getLeagues_resp(c, resp) ==
    /\ comp = "B" /\ Awaits(c, "getLeagues", "http")
    /\ Set(c, B_ReturnsData(calls[c], resp))
    /\ UNCHANGED shared

B_getSports(c) ==
    /\ comp = "B" /\ Take(c)
    /\ Set(c, Fetch(Start("getSports", Undefined)))
    /\ UNCHANGED shared

B_getSports_resp(c, resp) ==
    /\ comp = "B" /\ Awaits(c, "getSports", "http")
    /\ Set(c, B_ReturnsData(calls[c], resp))
    /\ UNCHANGED shared

\* isAddress(x) / isHexString(x) of the one string argument
StringArgs == [wellFormed : BOOLEAN]

B_getRecentPendingBets(c, address) ==
    /\ comp = "B" /\ Take(c) /\ address \in StringArgs
    /\ LET r == Start("getRecentPendingBets", address) IN
       IF ~address.wellFormed
       THEN Set(c, Reject(r, Schema("Address is not a valid address")))
       ELSE Set(c, Fetch([r EXCEPT !.sent = address]))
    /\ UNCHANGED shared

B_getRecentPendingBets_resp(c, resp) ==
    /\ comp = "B" /\ Awaits(c, "getRecentPendingBets", "http")
    /\ Set(c, B_ReturnsFormatted(calls[c], resp))
    /\ UNCHANGED shared

B_getOrders(c, marketHash) ==
    /\ comp = "B" /\ Take(c) /\ marketHash \in StringArgs
    /\ LET r == Start("getOrders", marketHash) IN
       IF ~marketHash.wellFormed
       THEN Set(c, Reject(r, Schema("Market hash is not a valid hash string.")))
       ELSE Set(c, Fetch([r EXCEPT !.sent = marketHash]))
    /\ UNCHANGED shared

B_getOrders_resp(c, resp) ==
    /\ comp = "B" /\ Awaits(c, "getOrders", "http")
    /\ Set(c, B_ReturnsData(calls[c], resp))
    /\ UNCHANGED shared

B_getActiveOrders(c, account) ==
    /\ comp = "B" /\ Take(c) /\ account \in StringArgs
    /\ LET r == Start("getActiveOrders", account) IN
       IF ~account.wellFormed
       THEN Set(c, Reject(r, Schema("Address is not a valid address")))
       ELSE Set(c, Fetch([r EXCEPT !.sent = account]))
    /\ UNCHANGED shared

B_getActiveOrders_resp(c, resp) ==
    /\ comp = "B" /\ Awaits(c, "getActiveOrders", "http")
    /\ Set(c, B_ReturnsData(calls[c], resp))
    /\ UNCHANGED shared

(***************************************************************************)
(* Construction                                                            *)
(***************************************************************************)
Environments == {"production", "rinkeby"}

\* Arguments of new SportX(...); "" is an argument left out.  The legacy
\* constructor takes env and privateKey only.
CtorArgs(k) ==
    IF k = "A"
    THEN [env : Environments \cup {"bogus"},
          sidechainProviderUrl : {"", "url"},
          privateKey : {"", "notHex", "0xkey"},
          mainchainProviderUrl : {"", "url"},
          mainchainProvider : {"none", "metamask", "other"}]
    ELSE [env : Environments \cup {"bogus"},
          sidechainProviderUrl : {""},
          privateKey : {"notHex", "0xkey"},
          mainchainProviderUrl : {""},
          mainchainProvider : {"none"}]

isHexString(x) == x = "0xkey"

Thrown(msg, created) ==
    [status |-> "failed", err |-> Err("Error", msg, Undefined, 0, Undefined),
     created |-> created, signer |-> "none"]

Built(created, s) ==
    [status |-> "built", err |-> NoErr, created |-> created, signer |-> s]

\* if (!Object.values(Environments).includes(env)) throw ...
A_checkEnvironment(a, created, s) ==
    IF a.env \notin Environments
    THEN Thrown("Invalid environment", created)
    ELSE Built(created, s)

\* A faulty constructor, which takes the wallet provider when both a private
\* key and a provider are passed: C16 tells it from the code.
A_constructor_providerFirst(a) ==
    IF a.sidechainProviderUrl = ""
    THEN Thrown("sidechainProviderUrl not provided", {})
    ELSE LET c1 == {"sidechainProvider"} IN
         IF a.privateKey # "" /\ ~isHexString(a.privateKey)
         THEN Thrown("not a valid private key", c1)
         ELSE IF a.mainchainProvider # "none"
         THEN A_checkEnvironment(a, c1 \cup {"signer"},
                                 IF a.mainchainProvider = "metamask"
                                 THEN "metamask" ELSE "legacy")
         ELSE IF a.privateKey # ""
         THEN IF a.mainchainProviderUrl = ""
              THEN Thrown("mainchainProviderUrl is not provided", c1)
              ELSE A_checkEnvironment(a, c1 \cup {"mainchainProvider", "walletConnection"},
                                      "key")
         ELSE Thrown("Neither privateKey nor both providers provided.", c1)

\* Component A: the constructor, with the objects it has created so far
A_constructor(a) ==
    IF a.sidechainProviderUrl = ""
    THEN Thrown("sidechainProviderUrl not provided", {})
    ELSE LET c1 == {"sidechainProvider"} IN
         IF a.privateKey # "" /\ ~isHexString(a.privateKey)
         THEN Thrown("not a valid private key", c1)
         ELSE IF a.privateKey # ""
         THEN IF a.mainchainProviderUrl = ""
              THEN Thrown("mainchainProviderUrl is not provided", c1)
              ELSE A_checkEnvironment(a, c1 \cup {"mainchainProvider", "walletConnection"},
                                      "key")
         ELSE IF a.mainchainProvider # "none"
         THEN A_checkEnvironment(a, c1 \cup {"signer"},
                                 IF a.mainchainProvider = "metamask"
                                 THEN "metamask" ELSE "legacy")
         ELSE Thrown("Neither privateKey nor both providers provided.", c1)

\* Component B: the constructor; new Wallet(privateKey) has no provider
B_constructor(a) ==
    IF ~isHexString(a.privateKey)
    THEN Thrown("invalid private key", {})
    ELSE IF a.env \in Environments
    THEN Built({"wallet"}, "key")
    ELSE Thrown("Invalid environment", {"wallet"})

constructor(k, a) == IF k = "A" THEN A_constructor(a) ELSE B_constructor(a)

NotConstructed(a) ==
    [status |-> "none", err |-> NoErr, created |-> {}, signer |-> "none", args |-> a]

\* new SportX(...)
Construct ==
    /\ ctor.status = "none"
    /\ LET made == constructor(comp, ctor.args) IN
       /\ ctor' = [status |-> made.status, err |-> made.err, created |-> made.created,
                   signer |-> made.signer, args |-> ctor.args]
       /\ signer' = made.signer
    /\ UNCHANGED <<caller, comp, initialized, metadata, chainId, cur, connected,
                   everInit, calls>>

\* Arguments that construct an instance of kind k signing the way s.
UsualArgs(k, s) ==
    [env |-> "production",
     sidechainProviderUrl |-> IF k = "A" THEN "url" ELSE "",
     privateKey |-> IF s = "key" THEN "0xkey" ELSE "",
     mainchainProviderUrl |-> IF k = "A" /\ s = "key" THEN "url" ELSE "",
     mainchainProvider |-> CASE s = "metamask" -> "metamask"
                             [] s = "legacy" -> "other"
                             [] OTHER -> "none"]

Constructed(k, s) ==
    LET made == constructor(k, UsualArgs(k, s)) IN
    [status |-> made.status, err |-> made.err, created |-> made.created,
     signer |-> made.signer, args |-> UsualArgs(k, s)]

\* The caller has its result and drops the promise.
Return(c) ==
    /\ calls[c].st \in {"resolved", "rejected"}
    /\ Set(c, Idle)
    /\ connected' = connected \cap (Referenced(calls') \cup {cur})
    /\ UNCHANGED <<caller, comp, signer, ctor, initialized, metadata, chainId, cur, everInit>>

Init ==
    /\ caller = "sequential"
    /\ comp \in {"A", "B"}
    /\ signer \in IF comp = "A" THEN {"key", "metamask", "legacy"} ELSE {"key"}
    /\ ctor = Constructed(comp, signer)
    /\ ctor.status = "built" /\ ctor.signer = signer
    /\ initialized = FALSE
    /\ metadata = Undefined
    /\ chainId = 0
    /\ cur = 0
    /\ connected = {}
    /\ everInit = FALSE
    /\ calls = [c \in Calls |-> Idle]

Next ==
    \/ \E c \in Calls : A_init(c)
    \/ \E s \in Conns : A_connected(s)
    \/ \E c \in Calls : A_initTimeout(c)
    \/ \E c \in Calls : \E resp \in Responses("init") : A_init_metadata(c, resp)
    \/ \E c \in Calls : \E ok \in BOOLEAN : A_init_network(c, ok)
    \/ \E c \in Calls : A_getMetadata(c)
    \/ \E c \in Calls : A_getLeagues(c)
    \/ \E c \in Calls : A_getSports(c)
    \/ \E c \in Calls : A_getActiveMarkets(c)
    \/ \E c \in Calls : \E a \in MarketLookupArgs : A_marketLookup(c, a)
    \/ \E c \in Calls : \E a \in SuggestOrdersArgs : A_suggestOrders(c, a)
    \/ \E c \in Calls : \E a \in RequestArgs : A_getPendingOrFailedBets(c, a)
    \/ \E c \in Calls : \E a \in RequestArgs : A_getTrades(c, a)
    \/ \E c \in Calls : \E a \in GetOrdersArgs : A_getOrders(c, a)
    \/ \E c \in Calls : \E a \in NewOrders("A") : \E salt \in Salts :
          A_newOrder(c, a, salt)
    \/ \E c \in Calls : \E a \in FillOrdersArgs : \E salt \in Salts :
          A_fillOrders(c, a, salt)
    \/ \E c \in Calls : \E a \in CancelOrderArgs : A_cancelOrder(c, a)
    \/ \E c \in Calls : A_approveSportXContractsDai(c)
    \/ \E c \in Calls : \E ok \in BOOLEAN : A_approve_nonce(c, ok)
    \/ \E c \in Calls : \E ok \in BOOLEAN : A_getAddress_return(c, ok)
    \/ \E c \in Calls : \E ok \in BOOLEAN : A_sign_return(c, ok)
    \/ \E c \in Calls : \E resp \in Responses("newOrder") : A_newOrder_resp(c, resp)
    \/ \E c \in Calls : \E resp \in Responses("fillOrders") : A_fillOrders_resp(c, resp)
    \/ \E c \in Calls : \E resp \in Responses("cancelOrder") : A_cancelOrder_resp(c, resp)
    \/ \E c \in Calls : \E resp \in Responses("approveSportXContractsDai") : A_approveSportXContractsDai_resp(c, resp)
    \/ \E c \in Calls : \E resp \in Responses("getMetadata") : A_getMetadata_resp(c, resp)
    \/ \E c \in Calls : \E resp \in Responses("getLeagues") : A_getLeagues_resp(c, resp)
    \/ \E c \in Calls : \E resp \in Responses("getSports") : A_getSports_resp(c, resp)
    \/ \E c \in Calls : \E resp \in Responses("getActiveMarkets") : A_getActiveMarkets_resp(c, resp)
    \/ \E c \in Calls : \E resp \in Responses("marketLookup") : A_marketLookup_resp(c, resp)
    \/ \E c \in Calls : \E resp \in Responses("suggestOrders") : A_suggestOrders_resp(c, resp)
    \/ \E c \in Calls : \E resp \in Responses("getPendingOrFailedBets") : A_getPendingOrFailedBets_resp(c, resp)
    \/ \E c \in Calls : \E resp \in Responses("getTrades") : A_getTrades_resp(c, resp)
    \/ \E c \in Calls : \E resp \in Responses("getOrders") : A_getOrders_resp(c, resp)
    \/ \E c \in Calls : B_init(c)
    \/ \E s \in Conns : B_connect(s)
    \/ \E c \in Calls : B_connectTimeout(c)
    \/ \E c \in Calls : B_getMetadata(c)
    \/ \E c \in Calls : B_getActiveMarkets(c)
    \/ \E s \in Conns : \E data \in MetaVals : B_pushMetadata(s, data)
    \/ \E s \in Conns : \E data \in Markets : B_pushActiveMarkets(s, data)
    \/ \E c \in Calls : \E response \in Acks : B_ack(c, response)
    \/ \E c \in Calls : B_timeout(c)
    \/ \E c \in Calls : \E a \in NewOrders("B") : \E salt \in Salts :
          B_newOrder(c, a, salt)
    \/ \E c \in Calls : \E a \in B_CancelOrderArgs : B_cancelOrder(c, a)
    \/ \E c \in Calls : B_getLeagues(c)
    \/ \E c \in Calls : B_getSports(c)
    \/ \E c \in Calls : \E a \in StringArgs : B_getRecentPendingBets(c, a)
    \/ \E c \in Calls : \E a \in StringArgs : B_getOrders(c, a)
    \/ \E c \in Calls : \E a \in StringArgs : B_getActiveOrders(c, a)
    \/ \E c \in Calls : \E resp \in Responses("getLeagues") : B_getLeagues_resp(c, resp)
    \/ \E c \in Calls : \E resp \in Responses("getSports") : B_getSports_resp(c, resp)
    \/ \E c \in Calls : \E resp \in Responses("getRecentPendingBets") : B_getRecentPendingBets_resp(c, resp)
    \/ \E c \in Calls : \E resp \in Responses("getOrders") : B_getOrders_resp(c, resp)
    \/ \E c \in Calls : \E resp \in Responses("getActiveOrders") : B_getActiveOrders_resp(c, resp)
    \/ \E c \in Calls : Return(c)

Spec == Init /\ [][Next]_vars

(***************************************************************************)
(* The same instance under a caller that overlaps its calls: init() with   *)
(* itself and with the reads that share its connection.  No call of this   *)
(* specification signs, so one way of signing stands for the three.        *)
(***************************************************************************)
InitRace ==
    /\ caller = "overlapping"
    /\ comp \in {"A", "B"}
    /\ signer = "key"
    /\ ctor = Constructed(comp, signer)
    /\ initialized = FALSE
    /\ metadata = Undefined
    /\ chainId = 0
    /\ cur = 0
    /\ connected = {}
    /\ everInit = FALSE
    /\ calls = [c \in Calls |-> Idle]

NextRace ==
    \/ \E c \in Calls : A_init(c)
    \/ \E s \in Conns : A_connected(s)
    \/ \E c \in Calls : A_initTimeout(c)
    \/ \E c \in Calls : \E resp \in Responses("init") : A_init_metadata(c, resp)
    \/ \E c \in Calls : \E ok \in BOOLEAN : A_init_network(c, ok)
    \/ \E c \in Calls : A_getMetadata(c)
    \/ \E c \in Calls : \E resp \in Responses("getMetadata") : A_getMetadata_resp(c, resp)
    \/ \E c \in Calls : B_init(c)
    \/ \E s \in Conns : B_connect(s)
    \/ \E c \in Calls : B_connectTimeout(c)
    \/ \E c \in Calls : B_getMetadata(c)
    \/ \E c \in Calls : B_getActiveMarkets(c)
    \/ \E s \in Conns : \E data \in MetaVals : B_pushMetadata(s, data)
    \/ \E s \in Conns : \E data \in Markets : B_pushActiveMarkets(s, data)
    \/ \E c \in Calls : \E response \in Acks : B_ack(c, response)
    \/ \E c \in Calls : B_timeout(c)
    \/ \E c \in Calls : Return(c)

Race == InitRace /\ [][NextRace]_vars

(***************************************************************************)
(* Timers fire: a timer that setTimeout armed runs its callback once       *)
(* RELAYER_TIMEOUT has elapsed.  Nothing makes the relayer, the provider   *)
(* or the connection answer.                                               *)
(***************************************************************************)
TimerFires ==
    \E c \in Calls : A_initTimeout(c) \/ B_connectTimeout(c) \/ B_timeout(c)

FairSpec == Spec /\ WF_vars(TimerFires)

\* An instance from its construction on: the arguments are any the
\* constructor can be given.
InitBuild ==
    /\ caller = "sequential"
    /\ comp \in {"A", "B"}
    /\ signer = "none"
    /\ ctor \in {NotConstructed(a) : a \in CtorArgs(comp)}
    /\ initialized = FALSE
    /\ metadata = Undefined
    /\ chainId = 0
    /\ cur = 0
    /\ connected = {}
    /\ everInit = FALSE
    /\ calls = [c \in Calls |-> Idle]

NextBuild ==
    \/ Construct
    \/ Next

Build == InitBuild /\ [][NextBuild]_vars

\* A legacy instance after a successful init(), used by a caller that
\* overlaps its getMetadata and getActiveMarkets calls.
InitListen ==
    /\ caller = "overlapping"
    /\ comp = "B"
    /\ signer = "key"
    /\ ctor = Constructed(comp, signer)
    /\ initialized = TRUE
    /\ metadata \in MetaVals
    /\ chainId = 0
    /\ cur = 1
    /\ connected = {1}
    /\ everInit = TRUE
    /\ calls = [c \in Calls |-> Idle]

NextListen ==
    \/ \E c \in Calls : B_getMetadata(c)
    \/ \E c \in Calls : B_getActiveMarkets(c)
    \/ \E s \in Conns, data \in MetaVals : B_pushMetadata(s, data)
    \/ \E s \in Conns, data \in Markets : B_pushActiveMarkets(s, data)
    \/ \E c \in Calls, response \in Acks : B_ack(c, response)
    \/ \E c \in Calls : B_timeout(c)
    \/ \E c \in Calls : Return(c)

Listen == InitListen /\ [][NextListen]_vars

(***************************************************************************)
(* The claims                                                              *)
(***************************************************************************)
Settled(r) == r.st \in {"resolved", "rejected"}

\* C1: on either client an init() called after an earlier init() rejects with
\* "Already initialized" and opens no connection, whether the earlier call
\* has settled or still awaits its connection.
C1_InitTakesEffectOnce ==
    \A c \in Calls :
        calls[c].op = "init" /\ ~calls[c].arg.first =>
            /\ calls[c].st = "rejected"
            /\ calls[c].err = AlreadyInitialized
            /\ calls[c].conn = 0

IsTimeoutError(e) ==
    \/ e.kind = "APITimeoutError"
    \/ e.kind = "Error" /\ e.msg = "Timeout connecting to the SportX API"

\* C2: on either client an init() whose connection never reaches the
\* connected state eventually rejects, and with a timeout error.
C2_InitTimesOut ==
    \A c \in Calls :
        (calls[c].op = "init" /\ calls[c].pc = "conn")
            ~> \/ calls[c].conn \in connected
               \/ calls[c].st = "rejected" /\ IsTimeoutError(calls[c].err)

\* What the validation of each operation rejects, read off the argument.
ArgOps ==
    {"newOrder", "cancelOrder", "fillOrders", "suggestOrders", "marketLookup",
     "getOrders", "getPendingOrFailedBets", "getTrades", "getRecentPendingBets",
     "getActiveOrders"}

ArgInvalid(r) ==
    LET a == r.arg IN
    CASE r.op = "marketLookup" -> ~a.isArray \/ ~a.allHex
      [] r.op = "suggestOrders" -> \E f \in DOMAIN a : ~a[f]
      [] r.op = "fillOrders" ->
            \/ ~a.ordersOK \/ a.affiliateAddress = "bad"
            \/ a.fillDetailsMetadata = "bad" \/ ~a.isArray \/ ~a.positive
      [] r.op = "cancelOrder" /\ comp = "A" ->
            ~a.isArray \/ ~a.allHex \/ a.message = "notAString"
      [] r.op = "getOrders" /\ comp = "A" -> \E f \in DOMAIN a : a[f] = "bad"
      [] r.op = "newOrder" /\ comp = "B" ->
            \/ ~a.schemaOK
            \/ metadata # Undefined /\ a.totalBetSize < metadata.makerOrderMinimum
      [] r.op \in {"getRecentPendingBets", "getActiveOrders", "getOrders"} ->
            ~a.wellFormed
      [] OTHER -> ~a.schemaOK

\* C3: a call whose argument fails the validation of its operation rejects
\* with APISchemaError, and has signed nothing, requested nothing and
\* emitted nothing.
C3_InvalidInputFailsFast ==
    \A c \in Calls :
        calls[c].op \in ArgOps /\ ArgInvalid(calls[c]) =>
            /\ calls[c].st = "rejected"
            /\ calls[c].err.kind = "APISchemaError"
            /\ calls[c].nSign = 0 /\ calls[c].nHttp = 0 /\ calls[c].nEmit = 0

C3_Witness ==
    \E c \in Calls :
        /\ calls[c].op = "suggestOrders"
        /\ ~calls[c].arg.taker /\ calls[c].arg.baseToken
        /\ calls[c].err = Schema("taker is not a valid address")

\* C4: in component A a fillOrders whose orders and takerAmounts differ in
\* number fails with APISchemaError before anything is signed or requested,
\* so every signed FillDetails has as many orders as makerSigs as takerAmounts.
C4_LengthsChecked ==
    \A c \in Calls :
        comp = "A" /\ calls[c].op = "fillOrders" =>
            /\ Len(calls[c].arg.orders) # Len(calls[c].arg.takerAmounts) =>
                  /\ calls[c].st = "rejected"
                  /\ calls[c].err.kind = "APISchemaError"
                  /\ calls[c].nSign = 0 /\ calls[c].nHttp = 0
            /\ calls[c].signed # Undefined =>
                  LET fills == calls[c].signed.fillDetails.fills IN
                  /\ Len(fills.orders) = Len(fills.makerSigs)
                  /\ Len(fills.makerSigs) = Len(fills.takerAmounts)

\* The relayer has answered call r: an HTTP response, an acknowledgment or
\* the pushed event was delivered.
Answered(r) == r.resp # NoResp \/ r.ack = "done" \/ r.st = "resolved"

\* C5: a call that waits for the relayer and never gets an answer eventually
\* rejects with a timeout error, and no call sends its request twice.
C5_EveryCallTimesOut ==
    /\ \A c \in Calls :
          (Pending(calls[c]) /\ calls[c].pc \in {"http", "sock"})
              ~> \/ Answered(calls[c])
                 \/ calls[c].st = "rejected" /\ IsTimeoutError(calls[c].err)
    /\ [](\A c \in Calls : calls[c].nHttp + calls[c].nEmit <= 1)

\* What an operation of component A returns from a parsed body.
Expected(op, body) ==
    CASE op \in {"getMetadata", "getLeagues", "getSports", "marketLookup", "getOrders"} ->
            Field(body, "data")
      [] op = "getActiveMarkets" -> Field(Field(body, "data"), "markets")
      [] op = "getPendingOrFailedBets" -> Field(Field(body, "data"), "bets")
      [] op = "getTrades" -> Field(Field(body, "data"), "trades")
      [] OTHER -> body

SubFieldOps == {"getActiveMarkets", "getPendingOrFailedBets", "getTrades"}

\* C6: component A puts every HTTP response in one of three classes: a body
\* that is no JSON rejects with the parse-error APIError quoting the text,
\* whatever the status; a JSON body with a status other than 200 rejects with
\* an APIError carrying the body and the status; a JSON body with status 200
\* is handed to the operation, which returns data or its sub-field from it.
C6_ResponseClasses ==
    \A c \in Calls :
        comp = "A" /\ calls[c].resp # NoResp =>
            LET r == calls[c]
                p == tryParseJson(r.resp.text)
            IN /\ ~p.valid =>
                    /\ r.st = "rejected"
                    /\ r.err = Err("APIError", "Can't parse JSON", Undefined, 0, r.resp.text)
               /\ p.valid /\ r.resp.status # 200 =>
                    /\ r.st = "rejected"
                    /\ r.err.kind = "APIError"
                    /\ r.err.body = p.result
                    /\ r.err.code = r.resp.status
               /\ p.valid /\ r.resp.status = 200 =>
                    /\ r.err.kind # "APIError"
                    /\ r.op = "init" => r.pc \in {"net", "done"} /\ r.err.kind \in {"none", "ProviderError"}
                    /\ r.op # "init" =>
                          \/ r.st = "resolved" /\ r.val = Expected(r.op, p.result)
                          \/ /\ r.op \in SubFieldOps
                             /\ Field(p.result, "data") = Undefined
                             /\ r.st = "rejected" /\ r.err = TypeError

C6_Witness ==
    \E c \in Calls :
        /\ comp = "A" /\ calls[c].op = "newOrder"
        /\ calls[c].resp.status = 500 /\ tryParseJson(calls[c].resp.text).valid
        /\ calls[c].st = "rejected" /\ calls[c].err.code = 500

\* C7: on both clients an HTTP response with a status other than 200 and a
\* JSON body makes the call reject with APIError; no call resolves from it.
C7_ErrorStatusRejects ==
    \A c \in Calls :
        /\ calls[c].resp # NoResp
        /\ calls[c].resp.status # 200
        /\ tryParseJson(calls[c].resp.text).valid
        => calls[c].st = "rejected" /\ calls[c].err.kind = "APIError"

SocketOps == {"getMetadata", "getActiveMarkets", "newOrder", "cancelOrder"}

\* C8: a legacy socket call races its acknowledgment, the pushed event (where
\* it listens for one) and its timeout, all armed from the start of the call;
\* and once the call has settled no later event changes its outcome.
C8_SocketRace ==
    [][\A c \in Calls :
          /\ (comp = "B" /\ calls'[c].op \in SocketOps /\ calls'[c].pc = "sock") =>
                /\ calls'[c].tOp
                /\ calls'[c].ack # "none"
                /\ calls'[c].op \in {"getMetadata", "getActiveMarkets"} =>
                      calls'[c].lst # ""
          /\ (Settled(calls[c]) /\ calls'[c].st # "idle") =>
                /\ calls'[c].st = calls[c].st
                /\ calls'[c].val = calls[c].val
                /\ calls'[c].err = calls[c].err]_vars

\* The acknowledgment of call r said failure and was the first thing to
\* settle the call.
AckFailed(r) ==
    /\ r.op \in SocketOps /\ r.ack = "done"
    /\ r.st = "rejected" /\ r.err.kind # "APITimeoutError"

\* C9: a legacy socket call whose acknowledgment says failure rejects with an
\* APIError carrying the relayer's reason; a timeout with APITimeoutError.
C9_AckFailureIsAPIError ==
    \A c \in Calls :
        comp = "B" /\ calls[c].op \in SocketOps =>
            /\ AckFailed(calls[c]) =>
                  /\ calls[c].err.kind = "APIError"
                  /\ Field(calls[c].err.body, "reason") = "reason1"
            /\ (calls[c].st = "rejected" /\ calls[c].pc = "done" /\ calls[c].nEmit = 1
                  /\ ~AckFailed(calls[c])) => calls[c].err.kind = "APITimeoutError"

\* C10: once an init() has resolved, the cached metadata never changes.
C10_MetadataFrozen ==
    [][(\E c \in Calls : calls[c].op = "init" /\ calls[c].st = "resolved")
          => metadata' = metadata]_vars

\* The record a newOrder call handed to the transport.
Submitted(r) == IF comp = "A" THEN r.sent.orders[1] ELSE r.sent

\* C11: the order newOrder signs has the address of the instance's credential
\* as maker, the cached metadata's executor (and relayer and fee rates in the
\* legacy client) and a salt drawn in that call, whatever maker, executor or
\* salt the caller's object carries; what is submitted is that record plus
\* its signature.
C11_InjectedOrderFields ==
    \A c \in Calls :
        calls[c].op = "newOrder" /\ calls[c].signed # Undefined =>
            LET r == calls[c]
                o == r.signed
            IN /\ o.maker = WalletAddress
               /\ o.executor = metadata.executorAddress
               /\ comp = "B" =>
                     /\ o.relayer = metadata.relayerAddress
                     /\ o.relayerTakerFee = metadata.fees.relayerTakerFee
                     /\ o.relayerMakerFee = metadata.fees.relayerMakerFee
               /\ o.salt = r.salt /\ r.salt \in Salts
               /\ o.marketHash = r.arg.marketHash
               /\ r.sent # Undefined =>
                     /\ r.sig = getOrderSignature(o)
                     /\ Submitted(r) = WithSignature(o, r.sig)
                     /\ DOMAIN Submitted(r) = DOMAIN o \cup {"signature"}

C11_Witness ==
    \E c \in Calls :
        /\ calls[c].op = "newOrder" /\ calls[c].arg.maker = "0xCaller"
        /\ calls[c].sent # Undefined
        /\ Submitted(calls[c]).maker = WalletAddress

\* C12: in the legacy client a schema-valid newOrder whose totalBetSize is
\* below the cached makerOrderMinimum rejects with APISchemaError, nothing
\* signed and nothing emitted; a size equal to or above the minimum passes
\* the check and is signed.
C12_MinimumOrderSize ==
    \A c \in Calls :
        (comp = "B" /\ calls[c].op = "newOrder" /\ calls[c].arg.schemaOK
            /\ metadata # Undefined) =>
            IF calls[c].arg.totalBetSize < metadata.makerOrderMinimum
            THEN /\ calls[c].st = "rejected"
                 /\ calls[c].err.kind = "APISchemaError"
                 /\ calls[c].nSign = 0 /\ calls[c].nEmit = 0
            ELSE /\ calls[c].err.kind # "APISchemaError"
                 /\ calls[c].nSign = 1
                 /\ calls[c].signed.totalBetSize = ToString(calls[c].arg.totalBetSize)

C12_Witness ==
    \E c \in Calls :
        /\ comp = "B" /\ calls[c].op = "newOrder" /\ calls[c].arg.schemaOK
        /\ metadata # Undefined
        /\ calls[c].arg.totalBetSize < metadata.makerOrderMinimum
        /\ calls[c].st = "rejected"

\* Objects of the constructor that can reach the network.
NetworkCapable == {"sidechainProvider", "mainchainProvider", "walletConnection", "signer"}

\* C13: constructing either client with an environment outside the known
\* set fails in the constructor, whatever the other arguments are, and no
\* provider, wallet connection or signer has been created by then.
C13_BadEnvironmentFailsFirst ==
    (ctor.status # "none" /\ ctor.args.env \notin Environments) =>
        /\ ctor.status = "failed"
        /\ ctor.err.kind = "Error"
        /\ ctor.created \cap NetworkCapable = {}

\* The signed CancelDetails and the posted request of call r carry the
\* caller's hash list and the message expected.
CancelCarries(r, expected) ==
    LET d == r.signed.cancelDetails IN
    /\ d.orders = r.arg.orderHashes
    /\ d.message = expected
    /\ r.sent # Undefined =>
          /\ r.sent.orders = d.orders
          /\ r.sent.message = d.message
          /\ r.sent.cancelSignature = r.sig

\* C14 as stated: in component A a cancelOrder with a valid hash list signs
\* and posts the same orders and the same message: the caller's message when
\* one is supplied, "N/A" when it is omitted.
C14_MessageAsSupplied ==
    \A c \in Calls :
        (comp = "A" /\ calls[c].op = "cancelOrder" /\ calls[c].signed # Undefined) =>
            CancelCarries(calls[c],
                          IF calls[c].arg.message = "none" THEN "N/A"
                          ELSE calls[c].arg.message)

\* C14 as amended: the same, with the caller's message when a non-empty one
\* is supplied and "N/A" when the message is omitted or the empty string.
C14_MessageOrDefault ==
    \A c \in Calls :
        (comp = "A" /\ calls[c].op = "cancelOrder" /\ calls[c].signed # Undefined) =>
            CancelCarries(calls[c],
                          IF calls[c].arg.message \in {"none", ""} THEN "N/A"
                          ELSE calls[c].arg.message)

C14_Witness ==
    \E c \in Calls :
        /\ comp = "A" /\ calls[c].op = "cancelOrder"
        /\ calls[c].arg.message = "test" /\ Len(calls[c].arg.orderHashes) = MaxLen
        /\ calls[c].sent # Undefined /\ calls[c].sent.message = "test"

\* C15: in component A a fillOrders call draws one fill salt: the salt in the
\* FillDetails the taker signs is the salt of the request; the request's
\* orderHashes are the hashes, in the same number and order, of the orders
\* whose contract form and maker signatures were signed; and the request
\* carries the hashes, not the orders.
C15_OneSaltOneBatch ==
    \A c \in Calls :
        (comp = "A" /\ calls[c].op = "fillOrders" /\ calls[c].sent # Undefined) =>
            LET r == calls[c]
                fills == r.signed.fillDetails.fills
            IN /\ r.salt \in Salts
               /\ fills.fillSalt = bigNumberify(r.salt)
               /\ bigNumberify(r.sent.fillSalt) = fills.fillSalt
               /\ Len(r.sent.orderHashes) = Len(r.arg.orders)
               /\ Len(fills.orders) = Len(r.arg.orders)
               /\ Len(fills.makerSigs) = Len(r.arg.orders)
               /\ \A i \in 1..Len(r.arg.orders) :
                     /\ fills.orders[i] = convertToContractOrder(r.arg.orders[i])
                     /\ fills.makerSigs[i] = MakerSig(r.arg.orders[i])
                     /\ r.sent.orderHashes[i] = getOrderHash(fills.orders[i])
               /\ "orders" \notin DOMAIN r.sent
               /\ r.sent.takerSig = r.sig

C15_Witness ==
    \E c \in Calls :
        /\ comp = "A" /\ calls[c].op = "fillOrders"
        /\ Len(calls[c].arg.orders) >= 2
        /\ calls[c].sent # Undefined
        /\ calls[c].sent.fillSalt = calls[c].salt

Eip712Ops == {"fillOrders", "cancelOrder", "approveSportXContractsDai"}

\* The way of signing the constructor's arguments fix.
PathOf(a) ==
    IF a.privateKey # "" THEN "signTypedData_v4"
    ELSE IF a.mainchainProvider = "metamask" THEN "eth_signTypedData_v4"
    ELSE "eth_signTypedData"

\* C16: getEip712Signature signs in the one way the constructor's arguments
\* fix: locally with a private key, without asking the provider, also when a
\* wallet provider was passed too; by eth_signTypedData_v4 with no key and a
\* MetaMask provider; by eth_signTypedData otherwise; and the same way in
\* fillOrders, cancelOrder and approveSportXContractsDai.
C16_OneSigningPath ==
    \A c \in Calls :
        (comp = "A" /\ calls[c].op \in Eip712Ops) =>
            /\ calls[c].sig # Undefined =>
                  /\ calls[c].sig.method = PathOf(ctor.args)
                  /\ calls[c].sig.over = calls[c].signed
            /\ ctor.args.privateKey # "" => calls[c].pc \notin {"sign", "addr"}
            /\ calls[c].pc = "sign" => ctor.args.mainchainProvider # "none"

C16_Witness ==
    \E c \in Calls :
        /\ comp = "A" /\ calls[c].op = "cancelOrder"
        /\ ctor.args.privateKey # "" /\ ctor.args.mainchainProvider = "metamask"
        /\ calls[c].sig # Undefined
        /\ calls[c].sig.method = "signTypedData_v4"

\* C17: on both clients, whenever the instance is marked initialized the
\* metadata cache is populated; an init() whose metadata fetch fails or
\* times out does not leave the instance marked initialized.
C17_InitializedHasMetadata ==
    /\ initialized => metadata # Undefined
    /\ \A c \in Calls :
          (calls[c].op = "init" /\ calls[c].arg.first /\ calls[c].st = "rejected")
              => ~initialized

\* The event with this data on socket s resolves every call that listens for
\* the key on s and is pending, and changes no other call.
Delivered(key, s, data) ==
    \A c \in Calls :
        IF calls[c].lst = key /\ calls[c].conn = s /\ Pending(calls[c])
        THEN /\ calls'[c].st = "resolved"
             /\ calls'[c].val = IF calls[c].op = "init" THEN Undefined ELSE data
        ELSE calls'[c] = calls[c]

\* C18: the listeners of legacy getMetadata / getActiveMarkets calls stay on
\* the socket; a pushed event resolves, with its data, every call pending on
\* its key at that moment, so a call resolves with the first event after its
\* start, and the listener of a settled call changes no call.
C18_ListenersIsolated ==
    [][\A s \in Conns :
          /\ \A data \in MetaVals :
                B_pushMetadata(s, data) => Delivered("METADATA", s, data)
          /\ \A data \in Markets :
                B_pushActiveMarkets(s, data) => Delivered("ACTIVE_MARKETS", s, data)]_vars

\* Two calls on the same socket resolved with the same pushed data.
C18_Witness ==
    \E c, d \in Calls :
        /\ c # d
        /\ calls[c].op = "getMetadata" /\ calls[d].op = "getMetadata"
        /\ calls[c].conn = calls[d].conn
        /\ calls[c].st = "resolved" /\ calls[d].st = "resolved"
        /\ calls[c].val = calls[d].val /\ calls[c].val # metadata

====
